---------------------------- MODULE Spec2Model ----------------------------
(***************************************************************************)
(* Model of the four MyBidFit presentation image generators                *)
(*   generate_business_icons, generate_dashboard_mockup,                   *)
(*   generate_hero_image, generate_investment_visual.                      *)
(* Each generator is a process; one invocation is a walk of its pc through *)
(* the statements of the function.  The environment (the credential, the   *)
(* HTTP endpoint, the filesystem) is nondeterministic.                     *)
(***************************************************************************)
EXTENDS Integers, Sequences, FiniteSets, TLC

(* ------------------------------ bounds -------------------------------- *)
\* total number of invocations started in one behaviour
MaxRuns == 2
\* total number of environment deviations (transport error, status other
\* than 200, bad body, directory or write failure) in one behaviour
MaxFaults == 1

(* ---------------------------- generators ------------------------------ *)
GenIcons == "generate_business_icons"
GenDashboard == "generate_dashboard_mockup"
GenHero == "generate_hero_image"
GenInvestment == "generate_investment_visual"

SingleGenerators == {GenDashboard, GenHero, GenInvestment}
Generators == {GenIcons} \cup SingleGenerators

\* the icon concepts of generate_business_icons, in list order
icons == <<"prospecting", "qualification", "needs_assessment",
           "proposal_contracting", "solutioning", "close_followup">>

\* number of loop iterations of a generator (one request per iteration)
Iterations(g) == IF g = GenIcons THEN Len(icons) ELSE 1

(* ------------------------------- paths -------------------------------- *)
AssetsDir == "/mnt/c/Users/dnice/DJ Programs/mybidfit_mini/business/mybidfit-presentation/assets"
IconsDir == "/mnt/c/Users/dnice/DJ Programs/mybidfit_mini/business/mybidfit-presentation/assets/icons"

\* the directory handed to os.makedirs
OutputDir(g) == IF g = GenIcons THEN IconsDir ELSE AssetsDir

\* os.makedirs creates the leaf and every missing ancestor
MadeDirs(d) == IF d = IconsDir THEN {AssetsDir, IconsDir} ELSE {d}

\* a hero script still carrying the dashboard's file name
BaseNameCopied(g) ==
  CASE g = GenDashboard -> "dashboard_mockup"
    [] g = GenHero -> "dashboard_mockup"
    [] g = GenInvestment -> "investment_visual"

\* the base name of the single-image generators' outputs
BaseName(g) ==
  CASE g = GenDashboard -> "dashboard_mockup"
    [] g = GenHero -> "hero_background"
    [] g = GenInvestment -> "investment_visual"

\* original_path of iteration k of generator g
original_path(g, k) ==
  IF g = GenIcons
    THEN IconsDir \o "/" \o icons[k] \o "_icon.png"
    ELSE AssetsDir \o "/" \o BaseName(g) \o ".png"

\* webp_path of iteration k of generator g
webp_path(g, k) ==
  IF g = GenIcons
    THEN IconsDir \o "/" \o icons[k] \o "_icon.webp"
    ELSE AssetsDir \o "/" \o BaseName(g) \o ".webp"

PathsOf(g) ==
  UNION {{original_path(g, k), webp_path(g, k)} : k \in 1..Iterations(g)}
AllPaths == UNION {PathsOf(g) : g \in Generators}

(* ------------------------- environment values ------------------------- *)
None == "<None>"
\* os.getenv('STABILITY_API_KEY'): unset, empty, or a key
Keys == {None, "", "sk-test"}
\* a credential check that only tests for None
FalsyOnlyNone(k) == k = None
\* `not api_key`
Falsy(k) == k = None \/ k = ""

\* the images the endpoint can serve
Images == {1, 2}
Statuses == {200, 300, 500}
BodyKinds == {"ok", "notjson", "noart", "emptyart", "badb64", "badimg"}
NoBody == [kind |-> "none", img |-> 0]
\* the response bodies an endpoint serving image im can send
Bodies(im) ==
  {[kind |-> k, img |-> IF k = "ok" THEN im ELSE 0] : k \in BodyKinds}
NoResponse == [status |-> 0, body |-> NoBody]

\* a request whose status is never checked
RaisesForStatusNever(status) == FALSE
\* response.raise_for_status(): HTTPError for 4xx and 5xx only
RaisesForStatus(status) == status >= 400 /\ status < 600
\* response.json() raises on a body that is not JSON
JsonRaises(body) == body.kind = "notjson"
\* "artifacts" in result
HasArtifacts(result) == result.kind # "noart"
\* base64.b64decode(result["artifacts"][0]["base64"]) raises KeyError
\* without the field, IndexError on an empty list and binascii.Error on
\* malformed base64
B64decodeRaises(result) == result.kind \in {"noart", "emptyart", "badb64"}
\* Image.open(io.BytesIO(image_data)) raises on bytes that are no image
ImageOpenRaises(image_data) == image_data.kind = "badimg"

\* how many deviations from the happy path a response costs
Cost(status, body) ==
  (IF status = 200 THEN 0 ELSE 1) + (IF body.kind = "ok" THEN 0 ELSE 1)

(* ------------------------------ files --------------------------------- *)
NoFile == [fmt |-> "none", img |-> 0]
\* image.save(path, fmt): the file at path holds the image in that format
Saved(f, path, fmt, img) == [f EXCEPT ![path] = [fmt |-> fmt, img |-> img]]

NoOwner == [gen |-> "none", icon |-> 0]

\* os.makedirs(d) without exist_ok
MakedirsRaisesIfExists(existing, d, refused) == refused \/ d \in existing
\* os.makedirs(d, exist_ok=True) raises only when the filesystem refuses
MakedirsRaises(existing, d, refused) == refused

(* --------------------------- observations ----------------------------- *)
\* one observable step of an invocation: a POST, a makedirs, a save
Ev(op, path, status, body, img, icon, res) ==
  [op |-> op, path |-> path, status |-> status, body |-> body, img |-> img,
   icon |-> icon, res |-> res]

\* what an invocation has done so far: the iterations it POSTed for, in
\* order; the makedirs calls that completed; the paths it saved; whether the
\* environment never deviated from the happy path
NoObs == [posts |-> <<>>, made |-> 0, saved |-> {}, clean |-> TRUE]

NoPrev ==
  [ran |-> FALSE, posts |-> <<>>, img |-> 0, ret |-> "none",
   fs |-> [p \in AllPaths |-> NoFile]]

(* ------------------------------ state --------------------------------- *)
VARIABLES
  dirs,          \* directories that exist
  fs,            \* path -> file contents
  owner,         \* path -> the (generator, iteration) that last wrote it
  runs,          \* invocations started
  faults,        \* environment deviations so far
  pc,            \* generator -> position in the function
  api_key,       \* generator -> value read from the environment
  server,        \* generator -> image the endpoint serves this invocation
  response,      \* generator -> local `response`
  result,        \* generator -> local `result`
  image_data,    \* generator -> local `image_data`
  image,         \* generator -> local `image` (0: none)
  i,             \* generator -> index of the icon being processed
  success_count, \* generator -> local `success_count`
  ret,           \* generator -> "none", "True", "False" or "raised"
  events,        \* generator -> events since the latest POST (or the start)
  obs,           \* generator -> what the invocation has done so far
  prev           \* generator -> the invocation that ended just before

vars == <<dirs, fs, owner, runs, faults, pc, api_key, server, response,
          result, image_data, image, i, success_count, ret, events, obs, prev>>

Init ==
  /\ dirs = {}
  /\ fs = [p \in AllPaths |-> NoFile]
  /\ owner = [p \in AllPaths |-> NoOwner]
  /\ runs = 0
  /\ faults = 0
  /\ pc = [g \in Generators |-> "idle"]
  /\ api_key = [g \in Generators |-> None]
  /\ server = [g \in Generators |-> 0]
  /\ response = [g \in Generators |-> NoResponse]
  /\ result = [g \in Generators |-> NoBody]
  /\ image_data = [g \in Generators |-> NoBody]
  /\ image = [g \in Generators |-> 0]
  /\ i = [g \in Generators |-> 0]
  /\ success_count = [g \in Generators |-> 0]
  /\ ret = [g \in Generators |-> "none"]
  /\ events = [g \in Generators |-> <<>>]
  /\ obs = [g \in Generators |-> NoObs]
  /\ prev = [g \in Generators |-> NoPrev]

(* --------------------------- control flow ----------------------------- *)
\* no invocation is in progress
Quiescent == \A h \in Generators : pc[h] \in {"idle", "done"}

\* first statement after the credential check: the icon generator ensures
\* its directory before the loop, the others go straight to the request
FirstPc(g) == IF g = GenIcons THEN "makedirs" ELSE "post"
\* every generator saving at once, the directory never ensured before
AfterOpenSaves(g) == "save_webp"
\* statement after Image.open: the single-image generators ensure the
\* directory here, the icon generator saves at once
AfterOpen(g) == IF g = GenIcons THEN "save_png" ELSE "makedirs"
\* statement after a successful os.makedirs
AfterMakedirs(g) == IF g = GenIcons THEN "post" ELSE "save_png"
\* os.makedirs of the icon generator is outside the try block
MakedirsInTry(g) == g # GenIcons
\* return success_count > 0
ReturnValueAny(sc) == IF sc > 0 THEN "True" ELSE "False"
\* return success_count == 6
ReturnValue(sc) == IF sc = 6 THEN "True" ELSE "False"

Log(g, e) == events' = [events EXCEPT ![g] = Append(@, e)]

\* the locals of one request are dead once its iteration ends
ClearLocals(g) ==
  /\ response' = [response EXCEPT ![g] = NoResponse]
  /\ result' = [result EXCEPT ![g] = NoBody]
  /\ image_data' = [image_data EXCEPT ![g] = NoBody]
  /\ image' = [image EXCEPT ![g] = 0]

\* the function returns r (or ends by an uncaught exception, r = "raised")
Return(g, r) ==
  /\ pc' = [pc EXCEPT ![g] = "done"]
  /\ ret' = [ret EXCEPT ![g] = r]
  /\ i' = [i EXCEPT ![g] = 0]
  /\ success_count' = [success_count EXCEPT ![g] = 0]
  /\ ClearLocals(g)

\* the for loop moves to the next icon, or falls through to the summary
Continue(g, sc) ==
  /\ success_count' = [success_count EXCEPT ![g] = sc]
  /\ ret' = ret
  /\ ClearLocals(g)
  /\ IF i[g] < Iterations(g)
       THEN /\ i' = [i EXCEPT ![g] = @ + 1]
            /\ pc' = [pc EXCEPT ![g] = "post"]
       ELSE /\ i' = i
            /\ pc' = [pc EXCEPT ![g] = "return"]

\* an except handler that issues the request again
EndIterationRetry(g, ok) ==
  IF ok
    THEN IF g = GenIcons THEN Continue(g, success_count[g] + 1)
                         ELSE Return(g, "True")
    ELSE /\ pc' = [pc EXCEPT ![g] = "post"]
         /\ ClearLocals(g)
         /\ UNCHANGED <<ret, i, success_count>>

\* end of one try/except body: ok when both saves completed.  The icon
\* generator counts and goes on; the others return.
EndIteration(g, ok) ==
  IF g = GenIcons
    THEN Continue(g, IF ok THEN success_count[g] + 1 ELSE success_count[g])
    ELSE Return(g, IF ok THEN "True" ELSE "False")

(* ------------------------------ actions ------------------------------- *)
\* the observations of h carried into the next state when g is started:
\* a finished invocation is forgotten (its process is gone)
Forget(f, g, blank) ==
  [h \in Generators |-> IF h # g /\ pc[h] = "done" THEN blank ELSE f[h]]

\* what is remembered of the invocation of g that ended just before this
\* one, when nothing deviated in it
Remember(g) ==
  IF pc[g] = "done" /\ obs[g].clean /\ obs[g].posts # <<>>
    THEN [ran |-> TRUE, posts |-> obs[g].posts, img |-> server[g],
          ret |-> ret[g], fs |-> fs]
    ELSE NoPrev

\* api_key = os.getenv(...); if not api_key: return False
Invoke(g) ==
  /\ pc[g] \in {"idle", "done"}
  /\ runs < MaxRuns
  /\ runs' = runs + 1
  /\ \E key \in Keys, im \in Images :
       /\ api_key' = [Forget(api_key, g, None) EXCEPT ![g] = key]
       /\ server' = [Forget(server, g, 0) EXCEPT ![g] = IF Falsy(key) THEN 0 ELSE im]
       /\ pc' = [Forget(pc, g, "idle") EXCEPT
                   ![g] = IF Falsy(key) THEN "done" ELSE FirstPc(g)]
       /\ ret' = [Forget(ret, g, "none") EXCEPT
                    ![g] = IF Falsy(key) THEN "False" ELSE "none"]
       \* the first icon of the loop; the other generators have one request
       /\ i' = [i EXCEPT ![g] = IF Falsy(key) THEN 0 ELSE 1]
  /\ success_count' = [success_count EXCEPT ![g] = 0]
  /\ ClearLocals(g)
  /\ events' = [Forget(events, g, <<>>) EXCEPT ![g] = <<>>]
  /\ obs' = [Forget(obs, g, NoObs) EXCEPT ![g] = NoObs]
  /\ prev' = [Forget(prev, g, NoPrev) EXCEPT ![g] = Remember(g)]
  /\ UNCHANGED <<dirs, fs, owner, faults>>

\* a script is run; the scripts are synchronous and run one at a time
Start(g) == Quiescent /\ Invoke(g)

\* os.makedirs(dir, exist_ok=True)
Makedirs(g) ==
  /\ pc[g] = "makedirs"
  /\ \E refused \in BOOLEAN :
       /\ refused => faults < MaxFaults
       /\ faults' = IF refused THEN faults + 1 ELSE faults
       /\ IF MakedirsRaises(dirs, OutputDir(g), refused)
            THEN /\ Log(g, Ev("makedirs", OutputDir(g), 0, "", 0, i[g], "fail"))
                 /\ obs' = [obs EXCEPT ![g].clean = @ /\ ~refused]
                 /\ dirs' = dirs
                 /\ Return(g, IF MakedirsInTry(g) THEN "False" ELSE "raised")
            ELSE /\ Log(g, Ev("makedirs", OutputDir(g), 0, "", 0, i[g], "ok"))
                 /\ obs' = [obs EXCEPT ![g].made = @ + 1]
                 /\ dirs' = dirs \cup MadeDirs(OutputDir(g))
                 /\ pc' = [pc EXCEPT ![g] = AfterMakedirs(g)]
                 /\ UNCHANGED <<ret, i, success_count, response, result,
                                image_data, image>>
  /\ UNCHANGED <<fs, owner, runs, api_key, server, prev>>

\* response = requests.post(url, headers=headers, json=data, timeout=120)
Post(g) ==
  /\ pc[g] = "post"
  /\ \/ \* timeout or connection error: requests.exceptions.RequestException
        /\ faults < MaxFaults
        /\ faults' = faults + 1
        /\ events' = [events EXCEPT
                        ![g] = <<Ev("post", "", 0, "transport", 0, i[g], "fail")>>]
        /\ obs' = [obs EXCEPT ![g].posts = Append(@, i[g]), ![g].clean = FALSE]
        /\ EndIteration(g, FALSE)
     \/ \E status \in Statuses, body \in Bodies(server[g]) :
          /\ faults + Cost(status, body) <= MaxFaults
          /\ faults' = faults + Cost(status, body)
          /\ events' = [events EXCEPT
                          ![g] = <<Ev("post", "", status, body.kind, body.img, i[g], "ok")>>]
          /\ obs' = [obs EXCEPT ![g].posts = Append(@, i[g]),
                                ![g].clean = @ /\ Cost(status, body) = 0]
          /\ response' = [response EXCEPT ![g] = [status |-> status, body |-> body]]
          /\ pc' = [pc EXCEPT ![g] = "raise_for_status"]
          /\ UNCHANGED <<ret, i, success_count, result, image_data, image>>
  /\ UNCHANGED <<dirs, fs, owner, runs, api_key, server, prev>>

\* response.raise_for_status()
RaiseForStatus(g) ==
  /\ pc[g] = "raise_for_status"
  /\ IF RaisesForStatus(response[g].status)
       THEN EndIteration(g, FALSE)
       ELSE /\ pc' = [pc EXCEPT ![g] = "json"]
            /\ UNCHANGED <<ret, i, success_count, response, result,
                           image_data, image>>
  /\ UNCHANGED <<dirs, fs, owner, runs, faults, api_key, server, events, obs, prev>>

\* result = response.json()
Json(g) ==
  /\ pc[g] = "json"
  /\ IF JsonRaises(response[g].body)
       THEN EndIteration(g, FALSE)
       ELSE /\ result' = [result EXCEPT ![g] = response[g].body]
            /\ pc' = [pc EXCEPT ![g] = "artifacts"]
            /\ UNCHANGED <<ret, i, success_count, response, image_data, image>>
  /\ UNCHANGED <<dirs, fs, owner, runs, faults, api_key, server, events, obs, prev>>

\* an else branch that reports the iteration as successful
ArtifactsElseSucceeds(g) ==
  /\ pc[g] = "artifacts"
  /\ IF HasArtifacts(result[g])
       THEN /\ pc' = [pc EXCEPT ![g] = "b64decode"]
            /\ UNCHANGED <<ret, i, success_count, response, result,
                           image_data, image>>
       ELSE EndIteration(g, TRUE)
  /\ UNCHANGED <<dirs, fs, owner, runs, faults, api_key, server, events, obs, prev>>

\* if "artifacts" in result: ... else: report, no image data
Artifacts(g) ==
  /\ pc[g] = "artifacts"
  /\ IF HasArtifacts(result[g])
       THEN /\ pc' = [pc EXCEPT ![g] = "b64decode"]
            /\ UNCHANGED <<ret, i, success_count, response, result,
                           image_data, image>>
       ELSE EndIteration(g, FALSE)
  /\ UNCHANGED <<dirs, fs, owner, runs, faults, api_key, server, events, obs, prev>>

\* image_data = base64.b64decode(result["artifacts"][0]["base64"])
B64decode(g) ==
  /\ pc[g] = "b64decode"
  /\ IF B64decodeRaises(result[g])
       THEN EndIteration(g, FALSE)
       ELSE /\ image_data' = [image_data EXCEPT ![g] = result[g]]
            /\ pc' = [pc EXCEPT ![g] = "open"]
            /\ UNCHANGED <<ret, i, success_count, response, result, image>>
  /\ UNCHANGED <<dirs, fs, owner, runs, faults, api_key, server, events, obs, prev>>

\* image = Image.open(io.BytesIO(image_data))
ImageOpen(g) ==
  /\ pc[g] = "open"
  /\ IF ImageOpenRaises(image_data[g])
       THEN EndIteration(g, FALSE)
       ELSE /\ image' = [image EXCEPT ![g] = image_data[g].img]
            /\ pc' = [pc EXCEPT ![g] = AfterOpen(g)]
            /\ UNCHANGED <<ret, i, success_count, response, result, image_data>>
  /\ UNCHANGED <<dirs, fs, owner, runs, faults, api_key, server, events, obs, prev>>

\* what image.save(path, ...) can do: complete, or raise and leave the path
\* as it was.  Without the directory the open itself fails.
SaveOutcomes(existing, d) ==
  IF d \in existing THEN {"ok", "fail"} ELSE {"fail"}

\* one image.save(path, fmt, quality=...) by generator g
Save(g, path, fmt, out) ==
  /\ (out # "ok" /\ OutputDir(g) \in dirs) => faults < MaxFaults
  /\ faults' = IF out # "ok" /\ OutputDir(g) \in dirs THEN faults + 1 ELSE faults
  /\ Log(g, Ev("save", path, 0, fmt, image[g], i[g], out))
  /\ obs' = [obs EXCEPT
               ![g].saved = IF out = "ok" THEN @ \cup {path} ELSE @,
               ![g].clean = @ /\ (out = "ok" \/ OutputDir(g) \notin dirs)]
  /\ fs' = IF out = "ok" THEN Saved(fs, path, fmt, image[g]) ELSE fs
  /\ owner' = IF out = "fail" THEN owner
              ELSE [owner EXCEPT ![path] = [gen |-> g, icon |-> i[g]]]

\* image.save(original_path, "PNG", quality=95)
SavePng(g) ==
  /\ pc[g] = "save_png"
  /\ \E out \in SaveOutcomes(dirs, OutputDir(g)) :
       /\ Save(g, original_path(g, i[g]), "PNG", out)
       /\ IF out = "ok"
            THEN /\ pc' = [pc EXCEPT ![g] = "save_webp"]
                 /\ UNCHANGED <<ret, i, success_count, response, result,
                                image_data, image>>
            ELSE EndIteration(g, FALSE)
  /\ UNCHANGED <<dirs, runs, api_key, server, prev>>

\* a WebP save whose failure is not noticed
SaveWebpUnchecked(g) ==
  /\ pc[g] = "save_webp"
  /\ \E out \in SaveOutcomes(dirs, OutputDir(g)) :
       /\ Save(g, webp_path(g, i[g]), "WebP", out)
       /\ EndIteration(g, TRUE)
  /\ UNCHANGED <<dirs, runs, api_key, server, prev>>

\* image.save(webp_path, "WebP", quality=85); success_count += 1 / return True
SaveWebp(g) ==
  /\ pc[g] = "save_webp"
  /\ \E out \in SaveOutcomes(dirs, OutputDir(g)) :
       /\ Save(g, webp_path(g, i[g]), "WebP", out)
       /\ EndIteration(g, out = "ok")
  /\ UNCHANGED <<dirs, runs, api_key, server, prev>>

\* the summary prints and `return success_count == 6` of the icon generator
ReturnSummary(g) ==
  /\ pc[g] = "return"
  /\ Return(g, ReturnValue(success_count[g]))
  /\ UNCHANGED <<dirs, fs, owner, runs, faults, api_key, server, events, obs, prev>>

Step(g) ==
  \/ Makedirs(g)
  \/ Post(g)
  \/ RaiseForStatus(g)
  \/ Json(g)
  \/ Artifacts(g)
  \/ B64decode(g)
  \/ ImageOpen(g)
  \/ SavePng(g)
  \/ SaveWebp(g)
  \/ ReturnSummary(g)

\* the scripts are run one after another, in any order
Next == \E g \in Generators : Start(g) \/ Step(g)

Spec == Init /\ [][Next]_vars

(* ---------------------- vocabulary of the claims ----------------------- *)
\* the events since the latest POST of g that satisfy a test
Has(g, Test(_)) == \E n \in 1..Len(events[g]) : Test(events[g][n])

\* STABILITY_API_KEY unset or empty
NoCredential(k) == k = None \/ k = ""
IsSave(e) == e.op = "save"
IsMakedirs(e) == e.op = "makedirs"
\* a POST that was answered (no transport failure)
IsAnswer(e) == e.op = "post" /\ e.res = "ok"
SuccessStatus(n) == n >= 200 /\ n < 300
ErrorStatus(n) == n >= 400 /\ n < 600
AnsweredNonSuccess(e) == IsAnswer(e) /\ ~SuccessStatus(e.status)
AnsweredError(e) == IsAnswer(e) /\ ErrorStatus(e.status)
AnsweredNoArtifacts(e) ==
  IsAnswer(e) /\ SuccessStatus(e.status) /\ e.body = "noart"

\* the iterations of g whose PNG and WebP were both saved in this invocation
Completed(g) ==
  {k \in 1..Iterations(g) :
     original_path(g, k) \in obs[g].saved /\ webp_path(g, k) \in obs[g].saved}

\* the icon generator returns True only with every icon completed
IconsTrueOnlyIfAll ==
  pc[GenIcons] = "done" /\ ret[GenIcons] = "True"
    => Completed(GenIcons) = 1..Len(icons)

(* -------------------------------- C1 ---------------------------------- *)
\* C1: an invocation that reads an unset or empty STABILITY_API_KEY returns
\* False at once: it issues no POST, creates no directory, saves no file.
C1_NoCredential ==
  \A g \in Generators :
    pc[g] # "idle" /\ NoCredential(api_key[g])
      => /\ pc[g] = "done"
         /\ ret[g] = "False"
         /\ events[g] = <<>>
         /\ obs[g] = NoObs

\* the icon generator has returned from a call with an empty credential,
\* after an earlier invocation left files behind
C1_Witness ==
  /\ pc[GenIcons] = "done" /\ api_key[GenIcons] = "" /\ ret[GenIcons] = "False"
  /\ \E p \in AllPaths : fs[p] # NoFile

(* -------------------------------- C2 ---------------------------------- *)
\* C2 as stated: a POST answered with a non-success status makes the
\* invocation return False with no file saved in the invocation.
C2_Original ==
  \A g \in Generators :
    pc[g] = "done" /\ Has(g, AnsweredNonSuccess)
      => ret[g] = "False" /\ obs[g].saved = {}

\* C2 amended: a POST answered with an error status (4xx or 5xx) saves no
\* file for that request.  A single-image generator then returns False having
\* created no directory and saved no file; the icon generator saves no file of
\* that icon and returns False, but may save the files of other icons.
C2_ErrorStatus ==
  /\ \A g \in Generators :
       Has(g, AnsweredError)
         => /\ ~Has(g, IsSave)
            /\ pc[g] \notin {"json", "artifacts", "b64decode", "open",
                             "makedirs", "save_png", "save_webp"}
            /\ pc[g] = "done" => ret[g] = "False"
            /\ \A n \in 1..Len(events[g]) :
                 events[g][n].icon \notin Completed(g)
            /\ g \in SingleGenerators
                 => obs[g].saved = {} /\ obs[g].made = 0
  /\ IconsTrueOnlyIfAll

\* the icon generator has ended after an error status for its last icon,
\* with the files of other icons saved
C2_Witness ==
  /\ pc[GenIcons] = "done" /\ Has(GenIcons, AnsweredError)
  /\ ret[GenIcons] = "False" /\ obs[GenIcons].saved # {}

(* -------------------------------- C3 ---------------------------------- *)
\* C3 as stated: a success status whose body has no "artifacts" makes the
\* invocation return False with no file saved in the invocation.
C3_Original ==
  \A g \in Generators :
    pc[g] = "done" /\ Has(g, AnsweredNoArtifacts)
      => ret[g] = "False" /\ obs[g].saved = {}

\* C3 amended: a success status whose body has no "artifacts" saves no file
\* for that request.  A single-image generator then returns False having
\* created no directory and saved no file; the icon generator saves no file of
\* that icon and returns False, but may save the files of other icons.
C3_NoArtifacts ==
  /\ \A g \in Generators :
       Has(g, AnsweredNoArtifacts)
         => /\ ~Has(g, IsSave)
            /\ pc[g] \notin {"b64decode", "open", "makedirs", "save_png",
                             "save_webp"}
            /\ pc[g] = "done" => ret[g] = "False"
            /\ \A n \in 1..Len(events[g]) :
                 events[g][n].icon \notin Completed(g)
            /\ g \in SingleGenerators
                 => obs[g].saved = {} /\ obs[g].made = 0
  /\ IconsTrueOnlyIfAll

\* the icon generator has ended after a body without "artifacts" for its
\* last icon, with the files of other icons saved
C3_Witness ==
  /\ pc[GenIcons] = "done" /\ Has(GenIcons, AnsweredNoArtifacts)
  /\ ret[GenIcons] = "False" /\ obs[GenIcons].saved # {}

(* -------------------------------- C4 ---------------------------------- *)
AnsweredValid(e) == IsAnswer(e) /\ SuccessStatus(e.status) /\ e.body = "ok"
\* a makedirs or a save that raised
StorageFailed(e) == e.op \in {"makedirs", "save"} /\ e.res = "fail"
PngOf(img) == [fmt |-> "PNG", img |-> img]
WebpOf(img) == [fmt |-> "WebP", img |-> img]

\* C4 as stated: an invocation that receives a valid image (and whose writes
\* do not fail) returns True having written exactly two files; one that
\* returns True has completed both its writes.
C4_Original ==
  \A g \in Generators :
    /\ pc[g] = "done" /\ Has(g, AnsweredValid) /\ ~Has(g, StorageFailed)
         => ret[g] = "True" /\ Cardinality(obs[g].saved) = 2
    /\ pc[g] = "done" /\ ret[g] = "True" => Cardinality(obs[g].saved) = 2

\* C4 amended: a single-image generator that receives a valid image and whose
\* makedirs and saves do not fail returns True; when it returns True it has
\* saved exactly its PNG and its WebP, both holding the decoded image.  The
\* icon generator returns True when all six responses are valid and nothing
\* fails, and only when all six icons completed both saves: twelve files, a
\* PNG and a WebP of the same image per icon.  A failed save (a WebP failure
\* after the PNG was saved included) yields False.
C4_TwoFilesPerImage ==
  /\ \A g \in SingleGenerators :
       /\ pc[g] = "done" /\ Has(g, AnsweredValid) /\ ~Has(g, StorageFailed)
            => ret[g] = "True"
       /\ pc[g] = "done" /\ ret[g] = "True"
            => /\ obs[g].saved = {original_path(g, 1), webp_path(g, 1)}
               /\ Cardinality(obs[g].saved) = 2
               /\ fs[original_path(g, 1)] = PngOf(server[g])
               /\ fs[webp_path(g, 1)] = WebpOf(server[g])
  /\ pc[GenIcons] = "done" /\ obs[GenIcons].clean /\ ~NoCredential(api_key[GenIcons])
       => ret[GenIcons] = "True"
  /\ pc[GenIcons] = "done" /\ ret[GenIcons] = "True"
       => /\ obs[GenIcons].saved = PathsOf(GenIcons)
          /\ Cardinality(obs[GenIcons].saved) = 2 * Len(icons)
          /\ \A k \in 1..Len(icons) :
               /\ fs[original_path(GenIcons, k)] = PngOf(server[GenIcons])
               /\ fs[webp_path(GenIcons, k)] = WebpOf(server[GenIcons])
  /\ \A g \in Generators :
       pc[g] = "done" /\ Has(g, StorageFailed) => ret[g] # "True"

\* a single-image generator has returned False after its WebP save failed
\* with the PNG already saved
C4_Witness ==
  \E g \in SingleGenerators :
    /\ pc[g] = "done" /\ ret[g] = "False" /\ Has(g, AnsweredValid)
    /\ obs[g].saved = {original_path(g, 1)}
    /\ fs[original_path(g, 1)] = PngOf(server[g])

(* -------------------------------- C5 ---------------------------------- *)
\* C5 as stated: an invocation issues at most one POST and produces at most
\* one image.
C5_Original ==
  \A g \in Generators :
    Len(obs[g].posts) <= 1 /\ Cardinality(Completed(g)) <= 1

\* C5 amended: a single-image generator issues at most one POST and produces
\* at most one image per invocation; the icon generator issues one POST per
\* icon, in list order, six at most, and at most one image per icon.  No POST
\* is ever issued again, whatever its outcome.
C5_OnePostPerImage ==
  \A g \in Generators :
    /\ Len(obs[g].posts) <= Iterations(g)
    /\ \A n \in 1..Len(obs[g].posts) : obs[g].posts[n] = n
    /\ Completed(g) \subseteq 1..Len(obs[g].posts)
    /\ Cardinality(obs[g].saved) <= 2 * Len(obs[g].posts)

IsTransportFailure(e) == e.op = "post" /\ e.res = "fail"

\* a single-image generator has returned after its only POST timed out
C5_Witness ==
  \E g \in SingleGenerators :
    /\ pc[g] = "done" /\ Has(g, IsTransportFailure)
    /\ obs[g].posts = <<1>> /\ ret[g] = "False"

(* -------------------------------- C6 ---------------------------------- *)
\* a failure of any kind in the events since the latest POST
Failed(e) ==
  \/ e.res = "fail"
  \/ AnsweredError(e)
  \/ IsAnswer(e) /\ e.body # "ok"

\* C6: every failure during an invocation is caught inside the function and
\* surfaced as a False return value; no exception propagates out of it.
C6_AllFailuresCaught ==
  \A g \in Generators :
    /\ ret[g] # "raised"
    /\ pc[g] = "done" /\ Has(g, Failed) => ret[g] = "False"

(* -------------------------------- C7 ---------------------------------- *)
\* C7: a generator run twice in a row with the credential set and identical
\* valid responses returns True both times, and the files (paths and
\* contents) after the second run are those after the first.
C7_Idempotent ==
  \A g \in Generators :
    /\ pc[g] = "done" /\ prev[g].ran
    /\ obs[g].clean /\ obs[g].posts = prev[g].posts /\ server[g] = prev[g].img
    => /\ prev[g].ret = "True"
       /\ ret[g] = "True"
       /\ fs = prev[g].fs
       /\ \A p \in PathsOf(g) : fs[p] # NoFile

\* the icon generator has completed its second identical run
C7_Witness ==
  /\ pc[GenIcons] = "done" /\ prev[GenIcons].ran
  /\ obs[GenIcons].clean /\ obs[GenIcons].posts = prev[GenIcons].posts
  /\ server[GenIcons] = prev[GenIcons].img
  /\ ret[GenIcons] = "True"

(* -------------------------------- C8 ---------------------------------- *)
\* C8: a file written by one script (or for one icon) is never overwritten
\* by another script (or for another icon), in whatever order the scripts run.
C8_DisjointPaths ==
  [][\A p \in AllPaths : owner[p] # NoOwner => owner'[p] = owner[p]]_vars

\* two different scripts have each written their files
C8_Witness ==
  \E p, q \in AllPaths :
    /\ owner[p] # NoOwner /\ owner[q] # NoOwner
    /\ owner[p].gen # owner[q].gen

(* -------------------------------- C9 ---------------------------------- *)
\* a response that passes the status check and decodes to an image
AnsweredDecodable(e) == IsAnswer(e) /\ ~ErrorStatus(e.status) /\ e.body = "ok"
\* a request that failed at the network, status, parse or decode step
FailedBeforeStorage(e) ==
  \/ IsTransportFailure(e)
  \/ AnsweredError(e)
  \/ IsAnswer(e) /\ e.body # "ok"
IsSaveOf(e, fmt) == e.op = "save" /\ e.body = fmt

\* in every invocation the PNG save precedes the WebP save
PngBeforeWebp(g) ==
  \A m \in 1..Len(events[g]) :
    IsSaveOf(events[g][m], "WebP")
      => /\ m > 1
         /\ IsSaveOf(events[g][m - 1], "PNG")
         /\ events[g][m - 1].res = "ok"
         /\ events[g][m - 1].icon = events[g][m].icon

\* the directory is ensured only after a response was received and decoded,
\* and before either save
MakedirsAfterDecode(g) ==
  /\ \A m \in 1..Len(events[g]) :
       IsMakedirs(events[g][m])
         => \E n \in 1..(m - 1) : AnsweredDecodable(events[g][n])
  /\ \A m \in 1..Len(events[g]) :
       IsSave(events[g][m])
         => \E n \in 1..(m - 1) :
              IsMakedirs(events[g][n]) /\ events[g][n].res = "ok"

\* a request that fails before the storage steps leaves the filesystem alone
NoStorageAfterFailure(g) ==
  Has(g, FailedBeforeStorage)
    => /\ ~Has(g, IsSave) /\ ~Has(g, IsMakedirs)
       /\ obs[g].made = 0 /\ obs[g].saved = {}

\* C9 as stated: in every generator the directory is ensured only after the
\* response is decoded and before the saves; a request that fails earlier has
\* no filesystem side effect; the PNG save precedes the WebP save.
C9_Original ==
  \A g \in Generators :
    MakedirsAfterDecode(g) /\ NoStorageAfterFailure(g) /\ PngBeforeWebp(g)

\* C9 amended: the three single-image generators ensure the directory only
\* after the response is decoded and before the saves, so their invocations
\* that fail earlier have no filesystem side effect.  The icon generator
\* ensures its directory once, right after the credential check and before
\* the first POST, so an invocation with the credential has ensured the
\* directory whatever its requests do; an icon whose request fails at the
\* network, status, parse or decode step has no file saved.  In every
\* invocation the PNG save precedes the WebP save.
C9_Ordering ==
  /\ \A g \in SingleGenerators :
       MakedirsAfterDecode(g) /\ NoStorageAfterFailure(g)
  /\ Has(GenIcons, IsMakedirs)
       => Len(events[GenIcons]) = 1 /\ obs[GenIcons].posts = <<>>
  /\ obs[GenIcons].posts # <<>> \/ obs[GenIcons].saved # {}
       => obs[GenIcons].made = 1 /\ IconsDir \in dirs
  /\ Has(GenIcons, FailedBeforeStorage)
       => /\ ~Has(GenIcons, IsSave)
          /\ \A n \in 1..Len(events[GenIcons]) :
               events[GenIcons][n].icon \notin Completed(GenIcons)
  /\ \A g \in Generators : PngBeforeWebp(g)

\* the icon generator has ensured its directory and then seen its first
\* request fail at the network
C9_Witness ==
  /\ obs[GenIcons].posts = <<1>>
  /\ Has(GenIcons, IsTransportFailure)
  /\ obs[GenIcons].made = 1 /\ IconsDir \in dirs
  /\ obs[GenIcons].saved = {}

(* -------------------------------- C10 --------------------------------- *)
InLoop(g) ==
  pc[g] \in {"post", "raise_for_status", "json", "artifacts", "b64decode",
             "open", "save_png", "save_webp", "return"}

\* C10: with the credential set and the directory ensured, the icon generator
\* attempts each of the six icons exactly once, in list order, whatever the
\* outcome of earlier icons; success_count is always the number of icons
\* whose PNG and WebP were both saved; it returns True iff all six were.
C10_IconLoop ==
  /\ InLoop(GenIcons)
       => /\ success_count[GenIcons] = Cardinality(Completed(GenIcons))
          /\ success_count[GenIcons] >= 0
          /\ success_count[GenIcons] <= Len(icons)
          /\ Len(obs[GenIcons].posts) =
               IF pc[GenIcons] = "post" THEN i[GenIcons] - 1 ELSE i[GenIcons]
  /\ \A n \in 1..Len(obs[GenIcons].posts) : obs[GenIcons].posts[n] = n
  /\ pc[GenIcons] = "return" => Len(obs[GenIcons].posts) = Len(icons)
  /\ pc[GenIcons] = "done" /\ obs[GenIcons].made = 1
       => /\ Len(obs[GenIcons].posts) = Len(icons)
          /\ ret[GenIcons] = "True" <=> Completed(GenIcons) = 1..Len(icons)

\* the first icon failed and the five later ones were still completed
C10_Witness ==
  /\ pc[GenIcons] = "done" /\ ret[GenIcons] = "False"
  /\ Len(obs[GenIcons].posts) = Len(icons)
  /\ Completed(GenIcons) = 2..Len(icons)

=============================================================================
